---------------------------- MODULE Spec2Model ----------------------------
(* A model of harrshjain/PythonAIAgent:                                    *)
(*   - llm_tools.py      the persist adapter save_to_txt_file and the     *)
(*                        search / Wikipedia adapters;                     *)
(*   - app.py            the endpoint POST /api/v1/get_llm_response and   *)
(*                        the tool-use loop it drives;                     *)
(*   - check_api_usage.py the token-cost scan.                             *)
(* Text is a sequence of units: a unit is one character, or a literal     *)
(* piece of a format string (every writer emits the same literals at the  *)
(* same offsets, so unit offsets and byte offsets agree).                 *)
EXTENDS Integers, Sequences, FiniteSets, TLC

VARIABLES
    fs,            \* the file system: filename -> content (text)
    clock,         \* the wall clock, seconds after 2025-01-01 00:00:00
    nsaves,        \* SpecSave: save_to_txt_file calls made so far
    lastCall,      \* SpecSave: the last call, its arguments and its outcome
    written,       \* SpecSave: per file, the payloads saved successfully, in order
    lastOn,        \* SpecSave: per file, the last call made on it
    pc,            \* request: where get_query_response stands
    body,          \* request: the JSON object posted
    llmBuilt,      \* request: ChatOpenAI(...) was constructed
    invoked,       \* request: agent_executor.invoke was entered
    iterations,    \* request: AgentExecutor's iteration counter
    pending,       \* request: tool calls of the current round not yet run
    lastObs,       \* request: the last tool output appended to the scratchpad
    toolCalled,    \* request: some tool was dispatched
    rawOutput,     \* request: raw_response["output"]
    response,      \* request: the HTTP response sent
    reached,       \* request: the kind of error that reached the HTTP boundary
    exc,           \* request: the error raised while the request was handled
    tpc,           \* concurrent saves: per request, position in save_to_txt_file
    targ,          \* concurrent saves: per request, the call's locals
    tret,          \* concurrent saves: per request, the value returned
    directory,     \* scan: the --dir argument
    walk,          \* scan: files os.walk has still to yield
    total_tokens,  \* scan: running total
    total_files,   \* scan: running count
    file_results,  \* scan: results of the analysed files
    decisions,     \* scan: per file yielded, what the loop did with it
    report         \* scan: the dictionary returned

fileVars == <<fs, clock>>
saveVars == <<nsaves, lastCall, written, lastOn>>
reqVars  == <<pc, body, llmBuilt, invoked, iterations, pending, lastObs,
              toolCalled, rawOutput, response, reached, exc>>
concVars == <<tpc, targ, tret>>
scanVars == <<directory, walk, total_tokens, total_files, file_results,
              decisions, report>>
vars == <<fileVars, saveVars, reqVars, concVars, scanVars>>

-----------------------------------------------------------------------------
(* Bounds of the model.                                                    *)

MaxClock == 2
MaxSaves == 2
MaxCallsPerRound == 2
MaxFiles == 2

-----------------------------------------------------------------------------
(* Text helpers.                                                           *)

LF == "\n"

Digit(d) == <<"0", "1", "2", "3", "4", "5", "6", "7", "8", "9">>[d + 1]

MaxOf(a, b) == IF a >= b THEN a ELSE b

IsSuffix(p, s) ==
    Len(p) <= Len(s) /\ SubSeq(s, Len(s) - Len(p) + 1, Len(s)) = p

\* Python's `p in s` on strings: p occurs in s as a contiguous substring.
Contains(s, p) ==
    \E i \in 0..(Len(s) - Len(p)) : SubSeq(s, i + 1, i + Len(p)) = p

-----------------------------------------------------------------------------
(* llm_tools.py: save_to_txt_file.                                         *)

Surrogate == "\\ud800"

Payloads == {<<"a">>, <<"b", "b">>, <<"c", "c", "c">>, <<Surrogate>>}

DefaultFilename == "output.txt"

Filenames == {DefaultFilename, "notes.txt", ""}

\* What the operating system does to the call: nothing, refuses the open
\* (permissions), or fails the write (disk full).
IOOutcomes == {"ok", "open_fails", "write_fails"}

NoError == [cls |-> "none", msg |-> ""]

\* datetime.now().strftime("%Y-%m-%d %H:%M:%S"), for a time in the first
\* minute of 2025-01-01.
Strftime(now) == <<"2025-01-01 00:00:", Digit(now \div 10), Digit(now % 10)>>

\* f"---- Final Output ---- \nTimestamp: {timestamp_now}\n\n{data}\n\n"
FormattedText(data, timestamp_now) ==
    <<"---- Final Output ---- ", LF, "Timestamp: ">> \o timestamp_now
        \o <<LF, LF>> \o data \o <<LF, LF>>

\* open(filename, "w", encoding="utf-8"): the error it raises, if any.
OpenError(filename, io) ==
    IF filename = ""
    THEN [cls |-> "FileNotFoundError", msg |-> "No such file or directory: ''"]
    ELSE IF io = "open_fails"
    THEN [cls |-> "PermissionError", msg |-> "Permission denied"]
    ELSE NoError

\* A bug: the file is opened without truncation (mode "r+").
OpenNoTruncate(old) == old

\* Mode "w": the file is truncated on open.
OpenForWrite(old) == <<>>

\* f.write(formatted_text) and the flush on leaving the with block: the error
\* raised, if any. A lone surrogate cannot be encoded as UTF-8.
WriteError(text, io) ==
    IF \E i \in 1..Len(text) : text[i] = Surrogate
    THEN [cls |-> "UnicodeEncodeError", msg |-> "surrogates not allowed"]
    ELSE IF io = "write_fails"
    THEN [cls |-> "OSError", msg |-> "No space left on device"]
    ELSE NoError

\* The write lands at the descriptor's own offset, 0 after the open; what
\* lies beyond the text written stays.
WriteAt(content, text) ==
    [i \in 1..MaxOf(Len(content), Len(text)) |->
        IF i <= Len(text) THEN text[i] ELSE content[i]]

\* A bug: the handler catches OSError only.
ExceptOSErrorOnly(e) ==
    e.cls \in {"OSError", "FileNotFoundError", "PermissionError"}

\* `except Exception as e`: every error class raised here derives from it.
ExceptClause(e) ==
    e.cls \in {"OSError", "FileNotFoundError", "PermissionError",
               "UnicodeEncodeError", "ValueError"}

NoReturn == <<"<no value: raised>">>

SavedMessage(filename) == <<"Data saved successfully to ", filename, ".">>

FailedMessage(e) == <<"Failed to save data: ", e.msg>>

\* The except block of save_to_txt_file, with the file as the failure left it.
SaveFailure(e, content) ==
    IF ExceptClause(e)
    THEN [content |-> content, ret |-> FailedMessage(e), raised |-> NoError]
    ELSE [content |-> content, ret |-> NoReturn, raised |-> e]

\* save_to_txt_file(data, filename) called at time `now` on a file holding
\* `old`: the content it leaves, the value returned, the error raised.
SaveToTxtFile(old, data, filename, now, io) ==
    LET timestamp_now  == Strftime(now)
        formatted_text == FormattedText(data, timestamp_now)
        openErr        == OpenError(filename, io)
        opened         == OpenForWrite(old)
        writeErr       == WriteError(formatted_text, io)
    IN  IF openErr # NoError THEN SaveFailure(openErr, old)
        ELSE IF writeErr # NoError THEN SaveFailure(writeErr, opened)
        ELSE [content |-> WriteAt(opened, formatted_text),
              ret     |-> SavedMessage(filename),
              raised  |-> NoError]

NoCall == [made |-> FALSE]

FsInit == [f \in Filenames |-> <<>>]

\* The save tool called on its own, again and again.
InvokeSave ==
    /\ nsaves < MaxSaves
    /\ \E data \in Payloads, filename \in Filenames, io \in IOOutcomes,
          now \in clock..MaxClock :
        LET r    == SaveToTxtFile(fs[filename], data, filename, now, io)
            ok   == r.raised = NoError /\ r.ret = SavedMessage(filename)
            call == [made |-> TRUE, data |-> data, filename |-> filename,
                     now |-> now, io |-> io, ret |-> r.ret,
                     raised |-> r.raised, ok |-> ok]
        IN  /\ fs' = [fs EXCEPT ![filename] = r.content]
            /\ clock' = now
            /\ nsaves' = nsaves + 1
            /\ lastCall' = call
            /\ lastOn' = [lastOn EXCEPT ![filename] = call]
            /\ written' = IF ok
                          THEN [written EXCEPT ![filename] = Append(@, data)]
                          ELSE written
    /\ UNCHANGED <<reqVars, concVars, scanVars>>

-----------------------------------------------------------------------------
(* llm_tools.py: the search and Wikipedia adapters, and the dispatch of a  *)
(* tool call by name.                                                      *)

\* What the network does to an outbound call.
NetOutcomes == {"ok", "net_fails"}

\* search_tool = Tool(name="search", func=search.run): the function is the
\* client's own run, with no handler around it.
SearchRun(arg, net) ==
    IF net = "ok"
    THEN [obs |-> <<"search results for ", arg>>, raised |-> NoError]
    ELSE [obs |-> NoReturn,
          raised |-> [cls |-> "DuckDuckGoSearchException",
                      msg |-> "search request failed"]]

\* wiki_tool = WikipediaQueryRun(api_wrapper=api_wrapper): likewise.
WikiRun(arg, net) ==
    IF net = "ok"
    THEN [obs |-> <<"Page: ", arg, " Summary: ...">>, raised |-> NoError]
    ELSE [obs |-> NoReturn,
          raised |-> [cls |-> "ConnectionError",
                      msg |-> "wikipedia request failed"]]

\* tools = [search_tool, wiki_tool, save_tool]
ToolNames == {"search", "wikipedia", "save_text_to_file"}

\* Payloads the model hands to the save tool within a request.
SavePayloads == {<<"a">>, <<"b", "b">>}

\* The tool calls a model response may hold: a registered tool with its
\* argument, or a name that is not registered.
ToolCalls ==
    {[name |-> n, arg |-> <<"q">>] : n \in {"search", "wikipedia", "calculator"}}
        \cup {[name |-> "save_text_to_file", arg |-> d] : d \in SavePayloads}

\* The executor's name lookup and the call of the tool found: the file
\* content left, the observation, the error raised.
RunToolCall(call, content, now, io, net) ==
    IF call.name \notin ToolNames
    THEN [content |-> content,
          obs |-> <<call.name, " is not a valid tool, try one of [search, wikipedia, save_text_to_file].">>,
          raised |-> NoError]
    ELSE IF call.name = "search"
    THEN [content |-> content] @@ SearchRun(call.arg, net)
    ELSE IF call.name = "wikipedia"
    THEN [content |-> content] @@ WikiRun(call.arg, net)
    ELSE LET r == SaveToTxtFile(content, call.arg, DefaultFilename, now, io)
         IN  [content |-> r.content, obs |-> r.ret, raised |-> r.raised]

-----------------------------------------------------------------------------
(* app.py: the schema, the parser and the responses.                       *)

\* class ResearchTheResponse(BaseModel): field -> type
ResearchTheResponse ==
    [topic |-> "str", summary |-> "str", sources |-> "list[str]",
     tools_used |-> "list[str]"]

WellFormedObj ==
    [topic |-> "str", summary |-> "str", sources |-> "list[str]",
     tools_used |-> "list[str]"]

\* Final texts a model may emit: a JSON object (key -> the type of its
\* value) or prose.
ModelOutputs ==
    { [kind |-> "prose", text |-> "Here is what I found."],
      [kind |-> "json", obj |-> WellFormedObj],
      [kind |-> "json", obj |-> WellFormedObj @@ [extra |-> "str"]],
      [kind |-> "json",
       obj |-> [topic |-> "str", summary |-> "str", sources |-> "list[str]"]],
      [kind |-> "json",
       obj |-> [topic |-> "num", summary |-> "str", sources |-> "list[str]",
                tools_used |-> "list[str]"]] }

\* The output AgentExecutor returns when it stops the loop itself
\* (early_stopping_method "force").
StoppedText ==
    [kind |-> "prose",
     text |-> "Agent stopped due to iteration limit or time limit."]

\* A bug: any JSON object is accepted as it is, unvalidated.
ParseUnvalidated(text) ==
    IF text.kind = "json"
    THEN [ok |-> TRUE, value |-> text.obj, err |-> NoError]
    ELSE [ok |-> FALSE, value |-> <<>>,
          err |-> [cls |-> "OutputParserException",
                   msg |-> "Invalid json output"]]

\* llm_parser.parse(text), PydanticOutputParser over ResearchTheResponse: the
\* text must be JSON, every field must be there with its type; keys that are
\* no field are dropped.
Parse(text) ==
    IF text.kind # "json"
    THEN [ok |-> FALSE, value |-> <<>>,
          err |-> [cls |-> "OutputParserException",
                   msg |-> "Invalid json output"]]
    ELSE IF \A f \in DOMAIN ResearchTheResponse :
                f \in DOMAIN text.obj /\ text.obj[f] = ResearchTheResponse[f]
    THEN [ok |-> TRUE,
          value |-> [f \in DOMAIN ResearchTheResponse |-> text.obj[f]],
          err |-> NoError]
    ELSE [ok |-> FALSE, value |-> <<>>,
          err |-> [cls |-> "OutputParserException",
                   msg |-> "Failed to parse ResearchTheResponse from completion"]]

\* JSON values of the `query` key.
JStr(s) == [t |-> "str", v |-> s]

JNull == [t |-> "null", v |-> "null"]

\* Request bodies: JSON objects, with or without the key.
Bodies ==
    {[other |-> JStr("x")]}
        \cup {[query |-> q] : q \in {JStr(""), JStr("cats"), JStr("dogs"), JNull}}

\* request.get_json().get("query", "")
GetQuery(b) == IF "query" \in DOMAIN b THEN b.query ELSE JStr("")

\* A bug: the test of the query is gone.
TruthyAlways(j) == TRUE

\* Python's truth value of a JSON value, as `not query` takes it.
Truthy(j) == IF j.t = "str" THEN j.v # "" ELSE j.t # "null"

NoResponse == [status |-> 0]

\* jsonify(obj), status
JsonResponse(status, obj) ==
    [status |-> status, ctype |-> "application/json", body |-> obj]

\* What Flask answers when the view function raises: its own error page,
\* not a JSON body.
UnhandledResponse(e) ==
    [status |-> 500, ctype |-> "text/html",
     body |-> [html |-> "500 Internal Server Error"]]

\* Errors the remote model call may raise.
ModelErrors ==
    {[cls |-> "AuthenticationError", msg |-> "Incorrect API key provided"],
     [cls |-> "APIConnectionError", msg |-> "Connection error."]}

\* AgentExecutor(agent=agent, tools=tools, verbose=True) keeps the library's
\* default max_iterations.
MaxIterations == 15

\* A bug: the loop runs one round more than the cap.
ShouldContinueOffByOne(n) == n <= MaxIterations

\* AgentExecutor's loop condition.
ShouldContinue(n) == n < MaxIterations

-----------------------------------------------------------------------------
(* The parts of the state a specification leaves untouched.                *)

SaveIdle ==
    /\ nsaves = 0
    /\ lastCall = NoCall
    /\ written = [f \in Filenames |-> <<>>]
    /\ lastOn = [f \in Filenames |-> NoCall]

ReqIdle ==
    /\ pc = "idle"
    /\ body = [other |-> JStr("x")]
    /\ llmBuilt = FALSE
    /\ invoked = FALSE
    /\ iterations = 0
    /\ pending = 0
    /\ lastObs = <<>>
    /\ toolCalled = FALSE
    /\ rawOutput = [kind |-> "none"]
    /\ response = NoResponse
    /\ reached = "none"
    /\ exc = NoError

Requests == {1, 2}

ConcIdle ==
    /\ tpc = [r \in Requests |-> "model"]
    /\ targ = [r \in Requests |-> NoCall]
    /\ tret = [r \in Requests |-> <<>>]

ScanIdle ==
    /\ directory = <<>>
    /\ walk = <<>>
    /\ total_tokens = 0
    /\ total_files = 0
    /\ file_results = <<>>
    /\ decisions = <<>>
    /\ report = [done |-> FALSE]

FilesInit == fs = FsInit /\ clock = 0

-----------------------------------------------------------------------------
(* app.py: get_query_response, one request.                                *)

\* Lines 30-32: the query is missing or empty.
RejectEmptyQuery ==
    /\ pc = "idle"
    /\ \E b \in Bodies :
        /\ ~Truthy(GetQuery(b))
        /\ body' = b
    /\ response' = JsonResponse(404, [Error |-> "Query Required!!"])
    /\ reached' = "input"
    /\ exc' = NoError
    /\ pc' = "done"
    /\ UNCHANGED <<llmBuilt, invoked, iterations, pending, lastObs, toolCalled,
                   rawOutput>>
    /\ UNCHANGED <<fileVars, saveVars, concVars, scanVars>>

\* Lines 30-62: the client, the parser, the prompt, the agent and the executor
\* are built, and agent_executor.invoke is entered.
StartOrchestration ==
    /\ pc = "idle"
    /\ \E b \in Bodies :
        /\ Truthy(GetQuery(b))
        /\ body' = b
    /\ llmBuilt' = TRUE
    /\ invoked' = TRUE
    /\ iterations' = 0
    /\ pc' = "model"
    /\ UNCHANGED <<pending, lastObs, toolCalled, rawOutput, response, reached, exc>>
    /\ UNCHANGED <<fileVars, saveVars, concVars, scanVars>>

\* Line 62, outside the try block: the remote model call raises, the error
\* leaves invoke and the view function.
ModelRaises ==
    /\ pc = "model"
    /\ ShouldContinue(iterations)
    /\ \E e \in ModelErrors :
        /\ exc' = e
        /\ response' = UnhandledResponse(e)
    /\ reached' = "model"
    /\ pc' = "done"
    /\ UNCHANGED <<body, llmBuilt, invoked, iterations, pending, lastObs,
                   toolCalled, rawOutput>>
    /\ UNCHANGED <<fileVars, saveVars, concVars, scanVars>>

\* The model answers with one or more tool calls.
ModelRequestsTools ==
    /\ pc = "model"
    /\ ShouldContinue(iterations)
    /\ pending' \in 1..MaxCallsPerRound
    /\ pc' = "tools"
    /\ UNCHANGED <<body, llmBuilt, invoked, iterations, lastObs, toolCalled,
                   rawOutput, response, reached, exc>>
    /\ UNCHANGED <<fileVars, saveVars, concVars, scanVars>>

\* The model answers with its final text.
ModelFinishes ==
    /\ pc = "model"
    /\ ShouldContinue(iterations)
    /\ rawOutput' \in ModelOutputs
    /\ pc' = "parse"
    /\ UNCHANGED <<body, llmBuilt, invoked, iterations, pending, lastObs,
                   toolCalled, response, reached, exc>>
    /\ UNCHANGED <<fileVars, saveVars, concVars, scanVars>>

\* The loop condition fails: the executor returns its own stopped text.
ForceStop ==
    /\ pc = "model"
    /\ ~ShouldContinue(iterations)
    /\ rawOutput' = StoppedText
    /\ pc' = "parse"
    /\ UNCHANGED <<body, llmBuilt, invoked, iterations, pending, lastObs,
                   toolCalled, response, reached, exc>>
    /\ UNCHANGED <<fileVars, saveVars, concVars, scanVars>>

\* The next tool call of the round is dispatched. Its output goes to the
\* scratchpad; an error it raises leaves invoke and the view function. The
\* round's last call ends the iteration.
RunTool ==
    /\ pc = "tools"
    /\ pending > 0
    /\ \E call \in ToolCalls, io \in IOOutcomes, net \in NetOutcomes,
          now \in clock..MaxClock :
        LET r == RunToolCall(call, fs[DefaultFilename], now, io, net)
        IN  /\ fs' = [fs EXCEPT ![DefaultFilename] = r.content]
            /\ clock' = IF call.name = "save_text_to_file" THEN now ELSE clock
            /\ toolCalled' = TRUE
            /\ IF r.raised # NoError
               THEN /\ response' = UnhandledResponse(r.raised)
                    /\ reached' = "tool"
                    /\ exc' = r.raised
                    /\ pc' = "done"
                    /\ UNCHANGED <<pending, lastObs, iterations>>
               ELSE /\ lastObs' = r.obs
                    /\ pending' = pending - 1
                    /\ iterations' = IF pending = 1 THEN iterations + 1
                                     ELSE iterations
                    /\ pc' = IF pending = 1 THEN "model" ELSE "tools"
                    /\ UNCHANGED <<response, reached, exc>>
    /\ UNCHANGED <<body, llmBuilt, invoked, rawOutput>>
    /\ UNCHANGED <<saveVars, concVars, scanVars>>

\* Lines 64-70: the final text is parsed inside the try block.
ParseAndRespond ==
    /\ pc = "parse"
    /\ LET p == Parse(rawOutput)
       IN  IF p.ok
           THEN /\ response' = JsonResponse(200, [response |-> p.value])
                /\ reached' = "none"
                /\ exc' = NoError
           ELSE /\ response' = JsonResponse(500, [Error |-> p.err.msg])
                /\ reached' = "parse"
                /\ exc' = p.err
    /\ pc' = "done"
    /\ UNCHANGED <<body, llmBuilt, invoked, iterations, pending, lastObs,
                   toolCalled, rawOutput>>
    /\ UNCHANGED <<fileVars, saveVars, concVars, scanVars>>

Init == FilesInit /\ SaveIdle /\ ReqIdle /\ ConcIdle /\ ScanIdle

Next ==
    \/ RejectEmptyQuery
    \/ StartOrchestration
    \/ ModelRaises
    \/ ModelRequestsTools
    \/ ModelFinishes
    \/ ForceStop
    \/ RunTool
    \/ ParseAndRespond

\* One request, from its arrival to its response.
Spec == Init /\ [][Next]_vars

\* The same, with every blocking call returning or raising and the handler
\* running on to its return.
FairSpec == Spec /\ WF_vars(Next)

\* The save tool called in sequence.
SpecSave == Init /\ [][InvokeSave]_vars

-----------------------------------------------------------------------------
(* Two requests whose agents call the save tool at the same time: each     *)
(* request runs save_to_txt_file in its own thread, statement by statement. *)

\* Lines 7-8: the timestamp is taken and the text is formatted.
CSaveEnter(r) ==
    /\ tpc[r] = "model"
    /\ \E data \in SavePayloads, now \in clock..MaxClock :
        /\ targ' = [targ EXCEPT ![r] =
                      [made |-> TRUE, data |-> data, now |-> now,
                       text |-> FormattedText(data, Strftime(now))]]
        /\ clock' = now
    /\ tpc' = [tpc EXCEPT ![r] = "open"]
    /\ UNCHANGED <<fs, tret>>
    /\ UNCHANGED <<saveVars, reqVars, scanVars>>

\* Line 11: the file is opened, which truncates it, or the open fails.
CSaveOpen(r) ==
    /\ tpc[r] = "open"
    /\ \E io \in {"ok", "open_fails"} :
        LET e == OpenError(DefaultFilename, io)
        IN  IF e # NoError
            THEN /\ tret' = [tret EXCEPT ![r] =
                               SaveFailure(e, fs[DefaultFilename]).ret]
                 /\ tpc' = [tpc EXCEPT ![r] = "returned"]
                 /\ UNCHANGED fs
            ELSE /\ fs' = [fs EXCEPT ![DefaultFilename] = OpenForWrite(@)]
                 /\ tpc' = [tpc EXCEPT ![r] = "write"]
                 /\ UNCHANGED tret
    /\ UNCHANGED <<clock, targ>>
    /\ UNCHANGED <<saveVars, reqVars, scanVars>>

\* Lines 12-17: the text is written at this descriptor's offset and the call
\* returns.
CSaveWrite(r) ==
    /\ tpc[r] = "write"
    /\ \E io \in {"ok", "write_fails"} :
        LET e == WriteError(targ[r].text, io)
        IN  IF e # NoError
            THEN /\ tret' = [tret EXCEPT ![r] =
                               SaveFailure(e, fs[DefaultFilename]).ret]
                 /\ UNCHANGED fs
            ELSE /\ fs' = [fs EXCEPT ![DefaultFilename] =
                             WriteAt(@, targ[r].text)]
                 /\ tret' = [tret EXCEPT ![r] = SavedMessage(DefaultFilename)]
    /\ tpc' = [tpc EXCEPT ![r] = "returned"]
    /\ UNCHANGED <<clock, targ>>
    /\ UNCHANGED <<saveVars, reqVars, scanVars>>

NextConc == \E r \in Requests : CSaveEnter(r) \/ CSaveOpen(r) \/ CSaveWrite(r)

SpecConc == Init /\ [][NextConc]_vars

-----------------------------------------------------------------------------
(* check_api_usage.py: the token-cost scan. A name or a path is the        *)
(* sequence of its characters.                                             *)

\* MODEL_PRICING, USD per million tokens
MODEL_PRICING == [m \in {"gpt-4o"} |-> [input |-> 5, output |-> 20]]

DEFAULT_MODEL == "gpt-4o"

\* The list of line 78, in its order.
SkipDirs ==
    <<<<".", "g", "i", "t">>,
      <<"_", "_", "p", "y", "c", "a", "c", "h", "e", "_", "_">>,
      <<"v", "e", "n", "v">>,
      <<"e", "n", "v">>,
      <<"n", "o", "d", "e", "_", "m", "o", "d", "u", "l", "e", "s">>>>

\* file_types, when none is given
DefaultFileTypes ==
    {<<".", "p", "y">>, <<".", "t", "x", "t">>,
     <<".", "m", "d">>, <<".", "j", "s", "o", "n">>}

\* os.path.join(root, name)
PathJoin(root, name) ==
    IF root = <<>> THEN name
    ELSE IF root[Len(root)] = "/" THEN root \o name
    ELSE root \o <<"/">> \o name

RECURSIVE RootOf(_, _)
\* The root os.walk reports for the directory reached from `top` through the
\* sub-directories `dirs`.
RootOf(top, dirs) ==
    IF dirs = <<>> THEN top
    ELSE RootOf(PathJoin(top, Head(dirs)), Tail(dirs))

RECURSIVE Components(_)
\* The components of a path, split at "/".
Components(path) ==
    IF path = <<>> THEN <<>>
    ELSE IF \E i \in 1..Len(path) : path[i] = "/"
    THEN LET i == CHOOSE k \in 1..Len(path) :
                    path[k] = "/" /\ \A j \in 1..(k - 1) : path[j] # "/"
         IN  <<SubSeq(path, 1, i - 1)>> \o Components(SubSeq(path, i + 1, Len(path)))
    ELSE <<path>>

\* any(skip_dir in root for skip_dir in [...]): a substring test on the root.
SkipRoot(root) == \E k \in 1..Len(SkipDirs) : Contains(root, SkipDirs[k])

\* any(file.endswith(ext) for ext in file_types)
MatchesType(file, file_types) == \E ext \in file_types : IsSuffix(ext, file)

\* calculate_cost(input_tokens, output_tokens, model). Token counts are given
\* in half tokens (the 50/50 scenario passes total_tokens/2) and the cost is
\* in units of 1/2,000,000 USD, so that the arithmetic is exact.
CalculateCost(input_halves, output_halves, model) ==
    LET m       == IF model \in DOMAIN MODEL_PRICING THEN model ELSE DEFAULT_MODEL
        pricing == MODEL_PRICING[m]
    IN  input_halves * pricing.input + output_halves * pricing.output

\* analyze_file_tokens(filepath): the result dictionary; a file that cannot
\* be read or decoded gives one with an "error" key and 0 tokens.
AnalyzeFileTokens(filepath, f) ==
    IF f.readable
    THEN [filepath |-> filepath, tokens |-> f.tokens]
    ELSE [filepath |-> filepath, tokens |-> 0, error |-> "cannot read"]

RECURSIVE InsertDesc(_, _)
\* file_results.sort(key=tokens, reverse=True) is stable: a result goes after
\* those with as many tokens or more.
InsertDesc(sorted, r) ==
    IF sorted = <<>> THEN <<r>>
    ELSE IF Head(sorted).tokens >= r.tokens
    THEN <<Head(sorted)>> \o InsertDesc(Tail(sorted), r)
    ELSE <<r>> \o sorted

RECURSIVE SortDesc(_)
SortDesc(rs) ==
    IF rs = <<>> THEN <<>>
    ELSE InsertDesc(SortDesc(SubSeq(rs, 1, Len(rs) - 1)), rs[Len(rs)])

\* The --dir arguments tried.
Directories == {<<".">>, <<"m", "y", "e", "n", "v">>}

\* The files a scanned tree may hold: the sub-directories leading to the
\* file, its name, the tokens of its content, whether it can be read.
CandidateFiles ==
    { [dirs |-> <<>>, name |-> <<"n", "o", "t", "e", "s", ".", "t", "x", "t">>, tokens |-> 40, readable |-> TRUE],
      [dirs |-> <<<<"s", "r", "c">>>>, name |-> <<"a", ".", "p", "y">>, tokens |-> 7, readable |-> TRUE],
      [dirs |-> <<<<"s", "r", "c">>>>, name |-> <<"b", ".", "p", "y", "c">>, tokens |-> 9, readable |-> TRUE],
      [dirs |-> <<<<"s", "r", "c">>>>, name |-> <<"b", "a", "d", ".", "t", "x", "t">>, tokens |-> 3, readable |-> FALSE],
      [dirs |-> <<<<"e", "n", "v">>>>, name |-> <<"a", ".", "p", "y">>, tokens |-> 11, readable |-> TRUE],
      [dirs |-> <<<<"s", "r", "c">>, <<"v", "e", "n", "v">>>>, name |-> <<"a", ".", "p", "y">>, tokens |-> 5, readable |-> TRUE],
      [dirs |-> <<<<"e", "n", "v", "i", "r", "o", "n", "m", "e", "n", "t">>>>, name |-> <<"c", "o", "n", "f", ".", "j", "s", "o", "n">>, tokens |-> 13, readable |-> TRUE],
      [dirs |-> <<<<".", "g", "i", "t", "h", "u", "b">>>>, name |-> <<"c", "i", ".", "m", "d">>, tokens |-> 2, readable |-> TRUE] }

\* Trees of at most MaxFiles files, in the order os.walk yields them.
Walks ==
    UNION { { w \in [1..n -> CandidateFiles] :
                \A i, j \in 1..n : i # j => w[i] # w[j] } : n \in 0..MaxFiles }

InitScan ==
    /\ FilesInit /\ SaveIdle /\ ReqIdle /\ ConcIdle
    /\ directory \in Directories
    /\ walk \in Walks
    /\ total_tokens = 0
    /\ total_files = 0
    /\ file_results = <<>>
    /\ decisions = <<>>
    /\ report = [done |-> FALSE]

\* Lines 76-92: one file of the walk.
ScanFile ==
    /\ walk # <<>>
    /\ LET f        == Head(walk)
           root     == RootOf(directory, f.dirs)
           filepath == PathJoin(root, f.name)
           result   == AnalyzeFileTokens(filepath, f)
           note(o)  == Append(decisions, [file |-> f, root |-> root, outcome |-> o])
       IN  IF SkipRoot(root)
           THEN /\ decisions' = note("skipped")
                /\ UNCHANGED <<total_tokens, total_files, file_results>>
           ELSE IF ~MatchesType(f.name, DefaultFileTypes)
           THEN /\ decisions' = note("ignored")
                /\ UNCHANGED <<total_tokens, total_files, file_results>>
           ELSE IF "error" \in DOMAIN result
           THEN /\ decisions' = note("error")
                /\ UNCHANGED <<total_tokens, total_files, file_results>>
           ELSE /\ decisions' = note("counted")
                /\ total_tokens' = total_tokens + result.tokens
                /\ total_files' = total_files + 1
                /\ file_results' = Append(file_results, result)
    /\ walk' = Tail(walk)
    /\ UNCHANGED <<directory, report>>
    /\ UNCHANGED <<fileVars, saveVars, reqVars, concVars>>

\* Lines 94-132: the results are sorted, the three costs computed and the
\* dictionary returned.
FinishScan ==
    /\ walk = <<>>
    /\ ~report.done
    /\ file_results' = SortDesc(file_results)
    /\ report' =
        [done |-> TRUE,
         total_tokens |-> total_tokens,
         total_files |-> total_files,
         cost_estimates |->
            [all_input  |-> CalculateCost(2 * total_tokens, 0, DEFAULT_MODEL),
             all_output |-> CalculateCost(0, 2 * total_tokens, DEFAULT_MODEL),
             mixed      |-> CalculateCost(total_tokens, total_tokens, DEFAULT_MODEL)],
         file_results |-> SortDesc(file_results)]
    /\ UNCHANGED <<directory, walk, total_tokens, total_files, decisions>>
    /\ UNCHANGED <<fileVars, saveVars, reqVars, concVars>>

NextScan == ScanFile \/ FinishScan

SpecScan == InitScan /\ [][NextScan]_vars

-----------------------------------------------------------------------------
(* The claims.                                                             *)

Fields == {"topic", "summary", "sources", "tools_used"}

\* The posted body has no query key, or the empty string under it.
EmptyQuery(b) == ("query" \notin DOMAIN b) \/ b.query = JStr("")

\* C1: a request whose body has no `query` key, or the empty string under
\* it, is answered 404 {"Error": "Query Required!!"}, and neither the model
\* client is built, nor the executor invoked, nor any tool called.
C1_EmptyQueryRejected ==
    (pc # "idle" /\ EmptyQuery(body)) =>
        /\ pc = "done"
        /\ response = [status |-> 404, ctype |-> "application/json",
                       body |-> [Error |-> "Query Required!!"]]
        /\ ~llmBuilt /\ ~invoked /\ ~toolCalled

C1_Witness ==
    /\ pc = "done"
    /\ "query" \in DOMAIN body
    /\ body.query = JStr("")
    /\ response.status = 404

\* C2: with a non-empty query, an error raised by the remote model call or by
\* the parsing of the final text is answered 500 with the JSON body
\* {"Error": <the error's message>}.
C2_ErrorsAnsweredAsJson ==
    (pc = "done" /\ ~EmptyQuery(body) /\ reached \in {"model", "parse"}) =>
        response = [status |-> 500, ctype |-> "application/json",
                    body |-> [Error |-> exc.msg]]

\* A 200 response carries {"response": R}, R holding exactly the four fields,
\* each of its type.
IsStructuredAnswer(resp) ==
    /\ resp.status = 200
    /\ DOMAIN resp.body = {"response"}
    /\ DOMAIN resp.body.response = Fields
    /\ resp.body.response.topic = "str"
    /\ resp.body.response.summary = "str"
    /\ resp.body.response.sources = "list[str]"
    /\ resp.body.response.tools_used = "list[str]"

\* The final text is JSON holding the four fields, each of its type.
Conforms(text) ==
    /\ text.kind = "json"
    /\ Fields \subseteq DOMAIN text.obj
    /\ text.obj.topic = "str" /\ text.obj.summary = "str"
    /\ text.obj.sources = "list[str]" /\ text.obj.tools_used = "list[str]"

\* C3, as claimed: with a non-empty query, when neither the remote model nor
\* a tool failed, the answer is a 200 holding the four fields.
C3_Original ==
    (pc = "done" /\ Truthy(GetQuery(body)) /\ reached \notin {"model", "tool"}) =>
        IsStructuredAnswer(response)

\* C3, amended: with a non-empty query, when neither the remote model nor a
\* tool failed, the answer is a 200 holding exactly the four fields if the
\* final text conforms to the schema, and a 500 otherwise; no 200 is ever
\* sent without the four fields.
C3_Amended ==
    /\ (pc = "done" /\ Truthy(GetQuery(body)) /\ reached \notin {"model", "tool"}) =>
            IF Conforms(rawOutput)
            THEN IsStructuredAnswer(response)
            ELSE response.status = 500
    /\ response.status = 200 => IsStructuredAnswer(response)

C3_Witness ==
    /\ pc = "done"
    /\ toolCalled
    /\ rawOutput.kind = "json"
    /\ "extra" \in DOMAIN rawOutput.obj
    /\ IsStructuredAnswer(response)

\* C4: a failure of a search or Wikipedia call never reaches the HTTP caller:
\* no request ends with the error of a tool call.
C4_ToolFailureAbsorbed ==
    ~(pc = "done" /\ reached = "tool")

\* C5: when the last save on a file succeeded, the file holds that call's
\* text and nothing else: the header line, the timestamp line, a blank line,
\* the payload, a blank line.
C5_OverwriteNotAppend ==
    \A f \in Filenames :
        (lastOn[f].made /\ lastOn[f].ok) =>
            fs[f] = <<"---- Final Output ---- ", LF,
                      "Timestamp: ", "2025-01-01 00:00:",
                      Digit(lastOn[f].now \div 10), Digit(lastOn[f].now % 10), LF,
                      LF>>
                    \o lastOn[f].data \o <<LF, LF>>

\* Two saves on one file succeeded, the second with the shorter payload.
C5_Witness ==
    \E f \in Filenames :
        /\ Len(written[f]) = 2
        /\ Len(written[f][1]) > Len(written[f][2])
        /\ lastOn[f].made /\ lastOn[f].ok

\* The call's open or write fails.
IOFails(c) ==
    \/ c.filename = ""
    \/ c.io # "ok"
    \/ \E i \in 1..Len(c.data) : c.data[i] = Surrogate

\* C6: save_to_txt_file never raises: a call whose open or write fails
\* returns a string beginning "Failed to save data:", any other call returns
\* "Data saved successfully to <filename>.".
C6_SaveNeverRaises ==
    lastCall.made =>
        /\ lastCall.raised = NoError
        /\ lastCall.ret # NoReturn
        /\ IF IOFails(lastCall)
           THEN lastCall.ret[1] = "Failed to save data: "
           ELSE lastCall.ret =
                    <<"Data saved successfully to ", lastCall.filename, ".">>

C6_Witness ==
    /\ lastCall.made
    /\ lastCall.filename = DefaultFilename
    /\ \E i \in 1..Len(lastCall.data) : lastCall.data[i] = Surrogate
    /\ lastCall.io = "ok"
    /\ lastCall.ret[1] = "Failed to save data: "

\* Some component of the path is one of the five names.
InNamedDir(root) ==
    \E i \in 1..Len(Components(root)), k \in 1..Len(SkipDirs) :
        Components(root)[i] = SkipDirs[k]

\* C7: a file with a matching extension is skipped if and only if some
\* directory of its path is named exactly .git, __pycache__, venv, env or
\* node_modules.
C7_SkipsNamedDirsOnly ==
    \A i \in 1..Len(decisions) :
        MatchesType(decisions[i].file.name, DefaultFileTypes) =>
            (decisions[i].outcome = "skipped" <=> InNamedDir(decisions[i].root))

RECURSIVE TokensDue(_)
\* The tokens of the files that are readable, of a matching extension and
\* under no directory of the five names.
TokensDue(ds) ==
    IF ds = <<>> THEN 0
    ELSE (IF /\ Head(ds).file.readable
             /\ MatchesType(Head(ds).file.name, DefaultFileTypes)
             /\ ~InNamedDir(Head(ds).root)
          THEN Head(ds).file.tokens ELSE 0) + TokensDue(Tail(ds))

\* C8: the report's total_tokens is the sum of the tokens of the files to
\* analyse, and all_input is total_tokens / 1,000,000 * 5 (here in units of
\* 1/2,000,000 USD).
C8_TotalIsSum ==
    report.done =>
        /\ report.total_tokens = TokensDue(decisions)
        /\ report.cost_estimates.all_input = 2 * TokensDue(decisions) * 5

\* C9: when two requests have each saved successfully at the same time, the
\* file is as one of the two saves alone would have left it.
C9_SavesSerializable ==
    (\A r \in Requests :
        tpc[r] = "returned" /\ tret[r] = SavedMessage(DefaultFilename)) =>
        \E r \in Requests : fs[DefaultFilename] = targ[r].text

\* C10: the rounds of the loop never exceed the cap; a loop stopped at the
\* cap is answered 500; a response once sent is never replaced; every
\* request ends with a 200, a 404 or a 500.
C10_LoopBounded ==
    /\ [](iterations <= MaxIterations)
    /\ []((pc = "done" /\ iterations = MaxIterations) => response.status = 500)
    /\ [][response # NoResponse => response' = response]_vars
    /\ <>(pc = "done" /\ response.status \in {200, 404, 500})

C10_Witness ==
    /\ pc = "done"
    /\ iterations = MaxIterations
    /\ rawOutput = StoppedText
    /\ response.status = 500

=============================================================================
